---- MODULE Spec2Model ----
(***************************************************************************)
(* Model of anys-cid (src/src/cid.rs, src/src/lib.rs): the chunked         *)
(* Merkle-SHA-256 content identifier, its builder and its codecs.          *)
(*                                                                         *)
(* Three specifications share the module:                                  *)
(*   Spec       the CidBuilder life cycle (builder, update, set_version,   *)
(*              finalize);                                                 *)
(*   SpecRoot   get_root applied to bounded leaf sequences;                *)
(*   SpecCodec  encode/to_bytes, decode/from_bytes, Display and FromStr    *)
(*              over CIDs and over damaged buffers and strings.            *)
(*                                                                         *)
(* SHA-256 is modelled as an ideal hash: a digest is the record of what    *)
(* the hasher absorbed, so two digests are equal iff their preimages are.  *)
(* A hasher of this program absorbs either raw data bytes (a leaf) or two  *)
(* 32-byte hashes (an internal node), never both; the two are kept in the  *)
(* fields data and kids.                                                   *)
(***************************************************************************)
EXTENDS Integers, Sequences, FiniteSets, TLC

VARIABLES
    builder,    \* the CidBuilder: version, size, head, hasher, leaves
    input,      \* every byte passed to update so far, in order (history)
    cid,        \* the Cid returned by finalize
    pc,         \* "building" until finalize has consumed the builder, then "done"
    calls,      \* the number of update calls so far (history)
    straddled,  \* some update call started inside a block and ran past its end (history)
    leavesIn,   \* SpecRoot: the slice handed to get_root
    rootOut,    \* SpecRoot: what get_root returned
    rootPc,     \* SpecRoot: "ready" | "done"
    orig,       \* SpecCodec: the Cid being serialised
    wire,       \* SpecCodec: a byte buffer
    wireSrc,    \* SpecCodec: "none" | "encoded" (wire = to_bytes(orig)) | "damaged"
    text,       \* SpecCodec: a string, as a sequence of chars (code points)
    textSrc,    \* SpecCodec: "none" | "shown" (text = to_string(orig)) | "damaged"
    result,     \* SpecCodec: the outcome of the last decoder call
    last        \* SpecCodec: the last operation

builderVars == <<builder, input, cid, pc, calls, straddled>>
rootVars    == <<leavesIn, rootOut, rootPc>>
codecVars   == <<orig, wire, wireSrc, text, textSrc, result, last>>
vars        == <<builder, input, cid, pc, calls, straddled, leavesIn, rootOut, rootPc,
                 orig, wire, wireSrc, text, textSrc, result, last>>

(***************************************************************************)
(* Bounds of the model.                                                    *)
(***************************************************************************)
\* lib.rs:3 sets BLOCK_SIZE to 16 * 1024; the model scales the block down so
\* that inputs of several blocks can be enumerated byte by byte.
BLOCK_SIZE == 3
\* Longest total input fed to one builder.
MaxInput == 10
\* Longest slice passed to one update call (longer than a block).
MaxChunk == 5
\* Most update calls on one builder.
MaxCalls == 3
\* Most leaves handed to get_root in SpecRoot.
MaxLeaves == 5

\* The byte values data is drawn from.
DataBytes == {0, 1}

Min(a, b) == IF a < b THEN a ELSE b

RECURSIVE SeqsUpTo(_, _)
SeqsUpTo(S, n) ==
    IF n = 0 THEN {<<>>}
    ELSE LET shorter == SeqsUpTo(S, n - 1)
         IN shorter \cup {Append(s, x) : s \in {t \in shorter : Len(t) = n - 1}, x \in S}

(***************************************************************************)
(* Hashes.                                                                 *)
(***************************************************************************)
\* Hash::default(): the all-zero 32-byte array. It is no digest.
ZeroHash == [tag |-> "Zero", data |-> <<>>, kids |-> <<>>]

\* Sha256::new()
Sha256New == [data |-> <<>>, kids |-> <<>>]

\* hasher.update(bytes) with raw data bytes
HasherUpdate(h, bytes) == [h EXCEPT !.data = @ \o bytes]

\* hasher.update(&hash) with the 32 bytes of a hash
HasherUpdateHash(h, hash) == [h EXCEPT !.kids = Append(@, hash)]

\* hasher.finalize().into()
HasherFinalize(h) == [tag |-> "Digest", data |-> h.data, kids |-> h.kids]

\* The SHA-256 of a byte string, in one shot.
Sha256Of(bytes) == HasherFinalize(HasherUpdate(Sha256New, bytes))

(***************************************************************************)
(* Cid and CidBuilder.                                                     *)
(***************************************************************************)
VERSION_RAW == 65

\* Cid::new
CidNew(version, size, hash) == [version |-> version, size |-> size, hash |-> hash]

\* Cid::builder
CidBuilderNew(version) ==
    [version |-> version, size |-> 0, head |-> 0,
     hasher |-> Sha256New, leaves |-> <<>>]

\* The while loop of CidBuilder::update.
RECURSIVE UpdateLoop(_, _)
UpdateLoop(b, data) ==
    IF data = <<>> THEN b
    ELSE LET n     == Min(Len(data), BLOCK_SIZE - b.head)
             left  == SubSeq(data, 1, n)
             right == SubSeq(data, n + 1, Len(data))
             h1    == HasherUpdate(b.hasher, left)
             head1 == b.head + n
             b1    == IF head1 = BLOCK_SIZE
                      THEN [b EXCEPT !.head = 0,
                                     !.hasher = Sha256New,
                                     !.leaves = Append(@, HasherFinalize(h1))]
                      ELSE [b EXCEPT !.head = head1, !.hasher = h1]
         IN UpdateLoop(b1, right)

\* Mutant: the partial block is dropped at the start of every call.
updateFlush(b, data) ==
    UpdateLoop([b EXCEPT !.size = @ + Len(data), !.head = 0,
                         !.hasher = Sha256New], data)

\* Mutant: the size is not advanced.
updateNoSize(b, data) == UpdateLoop(b, data)

\* CidBuilder::update
update(b, data) == UpdateLoop([b EXCEPT !.size = @ + Len(data)], data)

\* Mutant: the last hasher is always pushed, also when the block is empty.
FinalLeavesAlways(b) == Append(b.leaves, HasherFinalize(b.hasher))

\* CidBuilder::finalize, the leaves after the trailing partial block is pushed.
FinalLeaves(b) ==
    IF b.head # 0 THEN Append(b.leaves, HasherFinalize(b.hasher)) ELSE b.leaves

\* Mutant: the next power of two strictly above n.
RECURSIVE PowerAbove(_, _)
PowerAbove(n, p) == IF p > n THEN p ELSE PowerAbove(n, 2 * p)
next_power_of_two_strict(n) == PowerAbove(n, 1)

\* usize::next_power_of_two: the smallest power of two >= n (1 for n = 0).
RECURSIVE PowerAtLeast(_, _)
PowerAtLeast(n, p) == IF p >= n THEN p ELSE PowerAtLeast(n, 2 * p)
next_power_of_two(n) == PowerAtLeast(n, 1)

\* Mutant: the two children are hashed in the other order.
RECURSIVE RootLoopSwapped(_, _)
RootLoopSwapped(hashes, i) ==
    IF i < 0 THEN hashes
    ELSE LET h1 == HasherUpdateHash(Sha256New, hashes[i * 2 + 2])
             h2 == HasherUpdateHash(h1, hashes[i * 2 + 1])
         IN RootLoopSwapped([hashes EXCEPT ![i] = HasherFinalize(h2)], i - 1)

\* One pass of the reduction loop of get_root: node i from its two children,
\* for i = size - 2 down to 0. hashes is the flat array, indexed from 0.
RECURSIVE RootLoop(_, _)
RootLoop(hashes, i) ==
    IF i < 0 THEN hashes
    ELSE LET h1 == HasherUpdateHash(Sha256New, hashes[i * 2 + 1])
             h2 == HasherUpdateHash(h1, hashes[i * 2 + 2])
         IN RootLoop([hashes EXCEPT ![i] = HasherFinalize(h2)], i - 1)

\* The flat array of get_root before the reduction: size - 1 default hashes,
\* the leaves, then default hashes up to size * 2 - 1 entries.
RootArray(leaves, size) ==
    [i \in 0 .. (size * 2 - 2) |->
        IF i >= size - 1 /\ i < size - 1 + Len(leaves)
        THEN leaves[i - (size - 1) + 1]
        ELSE ZeroHash]

\* get_root
get_root(leaves) ==
    LET size == next_power_of_two(Len(leaves))
    IN RootLoop(RootArray(leaves, size), size - 2)[0]

\* CidBuilder::finalize
finalize(b) == CidNew(b.version, b.size, get_root(FinalLeaves(b)))

\* Cid::from_data
from_data(version, data) == finalize(update(CidBuilderNew(version), data))

\* Cid::num_blocks: u64::div_ceil
num_blocks(c) ==
    LET d == c.size \div BLOCK_SIZE
        r == c.size % BLOCK_SIZE
    IN IF r > 0 THEN d + 1 ELSE d

(***************************************************************************)
(* The builder's life cycle.                                               *)
(***************************************************************************)
\* The version tags a builder is created with or switched to.
Versions == {VERSION_RAW, 66}

NoCid == CidNew(0, 0, ZeroHash)

IdleBuilder ==
    /\ builder = CidBuilderNew(0)
    /\ input = <<>>
    /\ cid = NoCid
    /\ pc = "idle"
    /\ calls = 0
    /\ straddled = FALSE

\* Cid::builder(version)
InitBuilder ==
    /\ \E v \in Versions : builder = CidBuilderNew(v)
    /\ input = <<>>
    /\ cid = NoCid
    /\ pc = "building"
    /\ calls = 0
    /\ straddled = FALSE

\* builder.update(data)
Update ==
    /\ pc = "building"
    /\ calls < MaxCalls
    /\ \E data \in SeqsUpTo(DataBytes, MaxChunk) :
          /\ Len(input) + Len(data) <= MaxInput
          /\ builder' = update(builder, data)
          /\ input' = input \o data
          /\ straddled' = (straddled \/ (Len(input) % BLOCK_SIZE # 0
                             /\ (Len(input) % BLOCK_SIZE) + Len(data) > BLOCK_SIZE))
    /\ calls' = calls + 1
    /\ UNCHANGED <<cid, pc, rootVars, codecVars>>

\* builder.set_version(version)
SetVersion ==
    /\ pc = "building"
    /\ \E v \in Versions : builder' = [builder EXCEPT !.version = v]
    /\ UNCHANGED <<input, cid, pc, calls, straddled, rootVars, codecVars>>

\* builder.finalize(): pushes the trailing leaf, reduces, consumes the builder.
Finalize ==
    /\ pc = "building"
    /\ builder' = [builder EXCEPT !.leaves = FinalLeaves(builder)]
    /\ cid' = finalize(builder)
    /\ pc' = "done"
    /\ UNCHANGED <<input, calls, straddled, rootVars, codecVars>>

(***************************************************************************)
(* get_root on its own.                                                    *)
(***************************************************************************)
\* Three distinct leaf hashes.
LeafPool == {Sha256Of(<<0>>), Sha256Of(<<1>>), Sha256Of(<<0, 1>>)}

IdleRoot ==
    /\ leavesIn = <<>>
    /\ rootOut = ZeroHash
    /\ rootPc = "idle"

InitRoot ==
    /\ leavesIn \in SeqsUpTo(LeafPool, MaxLeaves)
    /\ rootOut = ZeroHash
    /\ rootPc = "ready"

GetRoot ==
    /\ rootPc = "ready"
    /\ rootOut' = get_root(leavesIn)
    /\ rootPc' = "done"
    /\ UNCHANGED <<leavesIn, builderVars, codecVars>>

(***************************************************************************)
(* The codec. Here a Cid holds its size as a u64 and its hash as the       *)
(* HashLen bytes of the array. TLC's integers are 32 bits wide, so a u64   *)
(* is held as its base-128 digits, least significant first: U64Limbs - 1   *)
(* digits of 7 bits and a top digit of 64 - 63 = 1 bit.                    *)
(***************************************************************************)
\* mem::size_of::<Hash>()
HashLen == 32

\* The width of Inner::size.
U64Bits == 64

U64Limbs == (U64Bits + 6) \div 7

\* The u64 with the given low digits and zeros above them.
U64(digits) == [i \in 1 .. U64Limbs |-> IF i <= Len(digits) THEN digits[i] ELSE 0]

\* v >= 0x80
AtLeast0x80(v) == \E i \in 2 .. U64Limbs : v[i] # 0

\* v >> 7
Shr7(v) == [i \in 1 .. U64Limbs |-> IF i < U64Limbs THEN v[i + 1] ELSE 0]

\* bytes_varint put_u64_varint: while v >= 0x80, write (v & 0x7F) | 0x80 and
\* shift v right by 7; then write v.
RECURSIVE put_u64_varint(_)
put_u64_varint(v) ==
    IF AtLeast0x80(v)
    THEN <<v[1] + 128>> \o put_u64_varint(Shr7(v))
    ELSE <<v[1]>>

\* bytes_varint get_u64_varint: the loop over the bytes of buf. A byte at
\* shift 63 may carry only the top bit of the u64 (next & 0xFE = 0); no byte
\* may follow it. rest is what the buffer still holds afterwards.
RECURSIVE GetVarintLoop(_, _, _)
GetVarintLoop(buf, acc, shift) ==
    IF buf = <<>> THEN [ok |-> FALSE, value |-> acc, rest |-> buf]
    ELSE LET next == Head(buf)
             has_overflow == IF shift < (U64Bits \div 7) * 7 THEN FALSE
                             ELSE IF shift = (U64Bits \div 7) * 7 THEN next >= 2
                             ELSE TRUE
             acc1 == IF has_overflow THEN acc
                     ELSE [acc EXCEPT ![(shift \div 7) + 1] = next % 128]
         IN IF has_overflow THEN [ok |-> FALSE, value |-> acc, rest |-> Tail(buf)]
            ELSE IF next < 128 THEN [ok |-> TRUE, value |-> acc1, rest |-> Tail(buf)]
            ELSE GetVarintLoop(Tail(buf), acc1, shift + 7)

get_u64_varint(buf) == GetVarintLoop(buf, U64(<<>>), 0)

\* Cid::MAX_SIZE_IN_BYTES
MAX_SIZE_IN_BYTES == 1 + 9 + HashLen

\* Mutant: the size is written before the version tag.
encodeSizeFirst(c) == put_u64_varint(c.size) \o <<c.version>> \o c.hash

\* Cid::encode into an empty buffer, and Cid::to_bytes
encode(c) == <<c.version>> \o put_u64_varint(c.size) \o c.hash

to_bytes(c) == encode(c)

(***************************************************************************)
(* Outcomes of a decoder call: a Cid, a CidDecodeError, or a panic.        *)
(***************************************************************************)
NoCodecCid == CidNew(0, U64(<<>>), <<>>)

Ok(c) == [tag |-> "Ok", err |-> "", version |-> 0, cid |-> c]

Err(e) == [tag |-> "Err", err |-> e, version |-> 0, cid |-> NoCodecCid]

UnsupportedVersion(v) ==
    [tag |-> "Err", err |-> "UnsupportedVersion", version |-> v, cid |-> NoCodecCid]

Panic == [tag |-> "Panic", err |-> "", version |-> 0, cid |-> NoCodecCid]

NoResult == [tag |-> "None", err |-> "", version |-> 0, cid |-> NoCodecCid]

\* Cid::from_version_and_buf
from_version_and_buf(version, buf) ==
    IF version # VERSION_RAW THEN UnsupportedVersion(version)
    ELSE LET g == get_u64_varint(buf)
         IN IF ~g.ok THEN Err("InvalidSize")
            ELSE IF Len(g.rest) # HashLen THEN Err("InvalidHash")
            ELSE Ok(CidNew(version, g.value, g.rest))

\* Cid::from_bytes: split_at(1) panics on an empty slice.
from_bytes(bytes) ==
    IF Len(bytes) < 1 THEN Panic
    ELSE from_version_and_buf(bytes[1], Tail(bytes))

\* Cid::decode: get_u8 panics when nothing remains.
decode(buf) ==
    IF Len(buf) = 0 THEN Panic
    ELSE from_version_and_buf(Head(buf), Tail(buf))

(***************************************************************************)
(* Strings and base-58. A string is the sequence of its chars, each a      *)
(* Unicode code point; a char below 0x80 takes one byte of UTF-8 and the   *)
(* other chars of the model (below 0x800) take two.                        *)
(***************************************************************************)
Utf8Len(c) == IF c < 128 THEN 1 ELSE 2

Range(a, b) == [i \in 1 .. (b - a + 1) |-> a + i - 1]

\* bs58's default (Bitcoin) alphabet:
\* 123456789ABCDEFGHJKLMNPQRSTUVWXYZabcdefghijkmnopqrstuvwxyz
Alphabet ==
    Range(49, 57) \o Range(65, 72) \o Range(74, 78) \o Range(80, 90)
        \o Range(97, 107) \o Range(109, 122)

Reverse(s) == [i \in 1 .. Len(s) |-> s[Len(s) + 1 - i]]

RECURSIVE LeadingCount(_, _)
LeadingCount(s, z) ==
    IF s # <<>> /\ Head(s) = z THEN 1 + LeadingCount(Tail(s), z) ELSE 0

Repeat(x, n) == [i \in 1 .. n |-> x]

\* The inner loop of bs58 encode_into and decode_into: multiply the number
\* held in out (digits in base `to`, least significant first) by `from` and
\* add carry; returns the digits and the carry left over.
RECURSIVE MulAdd(_, _, _, _, _)
MulAdd(out, i, carry, from, to) ==
    IF i > Len(out) THEN <<out, carry>>
    ELSE LET c == carry + out[i] * from
         IN MulAdd([out EXCEPT ![i] = c % to], i + 1, c \div to, from, to)

\* while carry > 0: push carry % to; carry /= to
RECURSIVE PushDigits(_, _, _)
PushDigits(out, carry, to) ==
    IF carry = 0 THEN out
    ELSE PushDigits(Append(out, carry % to), carry \div to, to)

\* One pass of the outer loop: the input digit d is fed into out.
Feed(out, d, from, to) ==
    LET r == MulAdd(out, 1, d, from, to)
    IN PushDigits(r[1], r[2], to)

\* The outer loop over in[lo .. hi], most significant digit first. The range
\* is walked in two halves, the passes in the order of the loop; the test on
\* the first half's digits only makes TLC evaluate them before it goes on,
\* which keeps the evaluation shallow.
RECURSIVE RebaseRange(_, _, _, _, _, _)
RebaseRange(in, lo, hi, out, from, to) ==
    IF lo > hi THEN out
    ELSE IF lo = hi THEN Feed(out, in[lo], from, to)
    ELSE LET mid  == (lo + hi) \div 2
             half == RebaseRange(in, lo, mid, out, from, to)
         IN IF Len(half) >= 0
            THEN RebaseRange(in, mid + 1, hi, half, from, to)
            ELSE half

Rebase(in, out, from, to) == RebaseRange(in, 1, Len(in), out, from, to)

\* bs58::encode(bytes).into_string()
Bs58Encode(bytes) ==
    LET digits == Rebase(bytes, <<>>, 256, 58) \o Repeat(0, LeadingCount(bytes, 0))
    IN Reverse([i \in 1 .. Len(digits) |-> Alphabet[digits[i] + 1]])

\* alpha.decode[c]: the digit of an alphabet char
DigitOf(c) == CHOOSE d \in 0 .. 57 : Alphabet[d + 1] = c

\* bs58::decode(s).into_vec(): fails on a char that is not ASCII or not in
\* the alphabet.
Bs58Decode(s) ==
    IF \E i \in 1 .. Len(s) : s[i] > 127 \/ ~(\E d \in 0 .. 57 : Alphabet[d + 1] = s[i])
    THEN [ok |-> FALSE, bytes |-> <<>>]
    ELSE LET digits == [i \in 1 .. Len(s) |-> DigitOf(s[i])]
             bytes  == Rebase(digits, <<>>, 58, 256) \o Repeat(0, LeadingCount(digits, 0))
         IN [ok |-> TRUE, bytes |-> Reverse(bytes)]

\* Mutant: the version tag is base-58 encoded with the rest.
to_stringAllBase58(c) ==
    Bs58Encode(<<c.version>> \o put_u64_varint(c.size) \o c.hash)

\* impl Display for Cid
to_string(c) == <<c.version>> \o Bs58Encode(put_u64_varint(c.size) \o c.hash)

\* impl FromStr for Cid: split_at(1) panics on an empty string and on a
\* string whose byte 1 is no char boundary.
from_str(s) ==
    IF s = <<>> \/ Utf8Len(s[1]) > 1 THEN Panic
    ELSE LET d == Bs58Decode(Tail(s))
         IN IF ~d.ok THEN Err("InvalidEncoding")
            ELSE from_version_and_buf(s[1], d.bytes)

(***************************************************************************)
(* The codec's operations.                                                 *)
(***************************************************************************)
\* Version tags: the defined one, another ASCII one, one above 0x7F.
CodecVersions == {VERSION_RAW, 66, 195}

\* Sizes: 0, 10, 127, 128, 16384, 2^63 - 1, 2^63, 2^64 - 1.
CodecSizes ==
    {U64(<<>>), U64(<<10>>), U64(<<127>>), U64(<<0, 1>>), U64(<<0, 0, 1>>),
     U64(Repeat(127, U64Limbs - 1)),
     U64(Repeat(0, U64Limbs - 1) \o <<1>>),
     U64(Repeat(127, U64Limbs - 1) \o <<1>>)}

\* Hashes: [0; 32], [1; 32], [255; 32] and 7, 15, .., 255.
CodecHashes ==
    {Repeat(0, HashLen), Repeat(1, HashLen), Repeat(255, HashLen),
     [i \in 1 .. HashLen |-> 8 * i - 1]}

\* Bytes written over or after the bytes of a buffer.
DamageBytes == {0, 2, 128, 255}

\* Chars written over or after the chars of a string: '0' and 'l' are not in
\* the alphabet, U+00E9 is not ASCII, '1' and 'z' are the digits 0 and 57.
DamageChars == {48, 108, 233, 49, 122}

IdleCodec ==
    /\ orig = NoCodecCid
    /\ wire = <<>>
    /\ wireSrc = "none"
    /\ text = <<>>
    /\ textSrc = "none"
    /\ result = NoResult
    /\ last = "idle"

\* Cid::new(version, size, hash)
InitCodec ==
    /\ \E v \in CodecVersions, n \in CodecSizes, h \in CodecHashes :
          orig = CidNew(v, n, h)
    /\ wire = <<>>
    /\ wireSrc = "none"
    /\ text = <<>>
    /\ textSrc = "none"
    /\ result = NoResult
    /\ last = "new"

\* wire = cid.to_bytes()
Encode ==
    /\ wireSrc = "none" /\ textSrc = "none"
    /\ wire' = to_bytes(orig)
    /\ wireSrc' = "encoded"
    /\ last' = "to_bytes"
    /\ UNCHANGED <<orig, text, textSrc, result, builderVars, rootVars>>

\* The buffer is cut to its first k bytes.
TruncateWire ==
    /\ wireSrc = "encoded"
    /\ \E k \in 0 .. (Len(wire) - 1) : wire' = SubSeq(wire, 1, k)
    /\ wireSrc' = "damaged"
    /\ last' = "damage"
    /\ UNCHANGED <<orig, text, textSrc, result, builderVars, rootVars>>

\* A byte is appended to the buffer.
ExtendWire ==
    /\ wireSrc = "encoded"
    /\ \E b \in DamageBytes : wire' = Append(wire, b)
    /\ wireSrc' = "damaged"
    /\ last' = "damage"
    /\ UNCHANGED <<orig, text, textSrc, result, builderVars, rootVars>>

\* One byte of the buffer is overwritten.
CorruptWire ==
    /\ wireSrc = "encoded"
    /\ \E i \in 1 .. Len(wire), b \in DamageBytes :
          /\ wire[i] # b
          /\ wire' = [wire EXCEPT ![i] = b]
    /\ wireSrc' = "damaged"
    /\ last' = "damage"
    /\ UNCHANGED <<orig, text, textSrc, result, builderVars, rootVars>>

\* Cid::from_bytes(&wire)
FromBytes ==
    /\ wireSrc # "none"
    /\ last \in {"to_bytes", "damage"}
    /\ result' = from_bytes(wire)
    /\ last' = "from_bytes"
    /\ UNCHANGED <<orig, wire, wireSrc, text, textSrc, builderVars, rootVars>>

\* Cid::decode(&wire[..])
Decode ==
    /\ wireSrc # "none"
    /\ last \in {"to_bytes", "damage"}
    /\ result' = decode(wire)
    /\ last' = "decode"
    /\ UNCHANGED <<orig, wire, wireSrc, text, textSrc, builderVars, rootVars>>

\* text = cid.to_string()
Display ==
    /\ wireSrc = "none" /\ textSrc = "none"
    /\ text' = to_string(orig)
    /\ textSrc' = "shown"
    /\ last' = "to_string"
    /\ UNCHANGED <<orig, wire, wireSrc, result, builderVars, rootVars>>

\* The string is cut to its first k chars, for a few k.
TruncateText ==
    /\ textSrc = "shown"
    /\ \E k \in {0, 1, 2, Len(text) - 1} : text' = SubSeq(text, 1, k)
    /\ textSrc' = "damaged"
    /\ last' = "damage"
    /\ UNCHANGED <<orig, wire, wireSrc, result, builderVars, rootVars>>

\* A char is appended to the string.
ExtendText ==
    /\ textSrc = "shown"
    /\ \E c \in DamageChars : text' = Append(text, c)
    /\ textSrc' = "damaged"
    /\ last' = "damage"
    /\ UNCHANGED <<orig, wire, wireSrc, result, builderVars, rootVars>>

\* The first, second or last char of the string is overwritten.
CorruptText ==
    /\ textSrc = "shown"
    /\ \E i \in {1, 2, Len(text)}, c \in DamageChars :
          /\ text[i] # c
          /\ text' = [text EXCEPT ![i] = c]
    /\ textSrc' = "damaged"
    /\ last' = "damage"
    /\ UNCHANGED <<orig, wire, wireSrc, result, builderVars, rootVars>>

\* text.parse::<Cid>()
FromStr ==
    /\ textSrc # "none"
    /\ last \in {"to_string", "damage"}
    /\ result' = from_str(text)
    /\ last' = "from_str"
    /\ UNCHANGED <<orig, wire, wireSrc, text, textSrc, builderVars, rootVars>>

(***************************************************************************)
(* Specifications.                                                         *)
(***************************************************************************)
Init == InitBuilder /\ IdleRoot /\ IdleCodec

Next == Update \/ SetVersion \/ Finalize

Spec == Init /\ [][Next]_vars

NextRoot == GetRoot

InitR == IdleBuilder /\ InitRoot /\ IdleCodec

SpecRoot == InitR /\ [][NextRoot]_vars

NextCodec ==
    \/ Encode \/ TruncateWire \/ ExtendWire \/ CorruptWire \/ FromBytes \/ Decode
    \/ Display \/ TruncateText \/ ExtendText \/ CorruptText \/ FromStr

InitC == IdleBuilder /\ IdleRoot /\ InitCodec

SpecCodec == InitC /\ [][NextCodec]_vars

(***************************************************************************)
(* Properties of the builder (checked under Spec).                         *)
(***************************************************************************)
\* The last n elements of s.
LastN(s, n) == SubSeq(s, Len(s) - n + 1, Len(s))

\* ceil(n / BLOCK_SIZE): the least k with k * BLOCK_SIZE >= n.
BlocksFor(n) == CHOOSE k \in 0 .. n : k * BLOCK_SIZE >= n /\ (k = 0 \/ (k - 1) * BLOCK_SIZE < n)

\* C1. Chunking invariance: whatever the split of the input into update
\* calls, finalize returns the Cid (version, size and hash) that one update
\* over the whole input returns, for the same version.
ChunkingInvariance ==
    pc = "done" => cid = from_data(builder.version, input)

\* C1 witness: a finalized builder fed by several calls, one of them running
\* across a block boundary, with more than a block of input.
ChunkingInvarianceWitness ==
    /\ pc = "done"
    /\ calls >= 2
    /\ straddled
    /\ Len(input) > BLOCK_SIZE
    /\ cid = from_data(builder.version, input)

\* C7. Size and leaf count: the builder's size is the number of bytes passed
\* to update; at finalize the leaves handed to get_root number
\* ceil(size / BLOCK_SIZE), which is num_blocks of the result; k full blocks
\* give k leaves, and BLOCK_SIZE + 1 bytes give two leaves, the second the
\* hash of the one trailing byte.
SizeAndLeafCount ==
    /\ pc \in {"building", "done"} => builder.size = Len(input)
    /\ pc = "done" =>
          /\ cid.size = Len(input)
          /\ Len(builder.leaves) = BlocksFor(Len(input))
          /\ Len(builder.leaves) = num_blocks(cid)
          /\ Len(input) % BLOCK_SIZE = 0 => Len(builder.leaves) * BLOCK_SIZE = Len(input)
          /\ Len(input) = BLOCK_SIZE + 1 =>
                builder.leaves = <<Sha256Of(SubSeq(input, 1, BLOCK_SIZE)),
                                   Sha256Of(<<input[BLOCK_SIZE + 1]>>)>>

\* C7 witness: BLOCK_SIZE + 1 bytes finalized into two leaves.
SizeAndLeafCountWitness ==
    /\ pc = "done"
    /\ Len(input) = BLOCK_SIZE + 1
    /\ cid.size = BLOCK_SIZE + 1
    /\ Len(builder.leaves) = 2

\* C8. Fewer than two leaves: zero bytes give size 0 and the all-zero hash;
\* 1 .. BLOCK_SIZE bytes give the SHA-256 of those bytes.
SmallRoots ==
    pc = "done" =>
        /\ Len(input) = 0 => cid.size = 0 /\ cid.hash = ZeroHash
        /\ (Len(input) >= 1 /\ Len(input) <= BLOCK_SIZE) => cid.hash = Sha256Of(input)

\* C8 witness: exactly one full block, finalized to its own SHA-256.
SmallRootsWitness ==
    /\ pc = "done"
    /\ Len(input) = BLOCK_SIZE
    /\ cid.hash = Sha256Of(input)

\* C10. Cursor invariant: between calls, before finalize, head is
\* size mod BLOCK_SIZE, lies in [0, BLOCK_SIZE), and the active hasher holds
\* exactly the last head bytes of the input.
CursorInvariant ==
    pc = "building" =>
        /\ builder.head = builder.size % BLOCK_SIZE
        /\ builder.head >= 0 /\ builder.head < BLOCK_SIZE
        /\ builder.hasher = HasherUpdate(Sha256New, LastN(input, builder.head))

\* C10 witness: a builder past its first block, inside the next one.
CursorInvariantWitness ==
    /\ pc = "building"
    /\ calls >= 2
    /\ Len(input) > BLOCK_SIZE
    /\ builder.head > 0
    /\ Len(builder.leaves) >= 1

(***************************************************************************)
(* Properties of get_root (checked under SpecRoot).                        *)
(***************************************************************************)
IsPowerOfTwo(m) == \E e \in 0 .. m : 2 ^ e = m

\* The number of leaf slots for n leaves: the least power of two >= n.
SlotCount(n) ==
    CHOOSE m \in 1 .. (2 * n + 1) :
        /\ IsPowerOfTwo(m) /\ m >= n
        /\ \A k \in 1 .. (m - 1) : ~(IsPowerOfTwo(k) /\ k >= n)

\* SHA-256(left || right)
Node(left, right) ==
    [tag |-> "Digest", data |-> <<>>, kids |-> <<left, right>>]

\* The root of the complete binary tree over the slots, read left to right.
RECURSIVE TreeRoot(_)
TreeRoot(slots) ==
    IF Len(slots) = 1 THEN slots[1]
    ELSE LET half == Len(slots) \div 2
         IN Node(TreeRoot(SubSeq(slots, 1, half)),
                 TreeRoot(SubSeq(slots, half + 1, Len(slots))))

\* C9 as stated. Padding side: the m slots are first m - n all-zero hashes,
\* then the n leaves in input order.
RootIsLeftPadded ==
    rootPc = "done" =>
        rootOut = TreeRoot([i \in 1 .. (SlotCount(Len(leavesIn)) - Len(leavesIn)) |-> ZeroHash]
                           \o leavesIn)

\* C9 as amended. Padding side: the m slots are first the n leaves in input
\* order, then m - n all-zero hashes.
RootIsRightPadded ==
    rootPc = "done" =>
        rootOut = TreeRoot(leavesIn
                           \o [i \in 1 .. (SlotCount(Len(leavesIn)) - Len(leavesIn)) |-> ZeroHash])

\* C9 witness: three leaves reduce to H(H(L1 || L2) || H(L3 || zero)).
RootIsRightPaddedWitness ==
    /\ rootPc = "done"
    /\ Len(leavesIn) = 3
    /\ leavesIn[1] # leavesIn[2] /\ leavesIn[2] # leavesIn[3]
    /\ rootOut = Node(Node(leavesIn[1], leavesIn[2]), Node(leavesIn[3], ZeroHash))

(***************************************************************************)
(* Properties of the codec (checked under SpecCodec).                      *)
(***************************************************************************)
Decoders == {"from_bytes", "decode"}

\* C2 as stated. Binary round trip: for any Cid, of any version, decoding
\* its encoding succeeds and returns an equal Cid.
BinaryRoundTripAnyVersion ==
    (last \in Decoders /\ wireSrc = "encoded") => result = Ok(orig)

\* C2 as amended. Binary round trip: for any Cid of version 0x41, decoding
\* its encoding succeeds and returns an equal Cid.
BinaryRoundTrip ==
    (last \in Decoders /\ wireSrc = "encoded" /\ orig.version = VERSION_RAW)
        => result = Ok(orig)

\* C2 witness: the Cid of size 2^64 - 1 decoded back from its encoding.
BinaryRoundTripWitness ==
    /\ last = "decode"
    /\ wireSrc = "encoded"
    /\ orig.version = VERSION_RAW
    /\ orig.size = U64(Repeat(127, U64Limbs - 1) \o <<1>>)
    /\ result = Ok(orig)

\* C3 as stated. String round trip: for any Cid, of any version, parsing its
\* string form succeeds and returns an equal Cid.
StringRoundTripAnyVersion ==
    (last = "from_str" /\ textSrc = "shown") => result = Ok(orig)

\* C3 as amended. String round trip: for any Cid of version 0x41, parsing its
\* string form succeeds and returns an equal Cid.
StringRoundTrip ==
    (last = "from_str" /\ textSrc = "shown" /\ orig.version = VERSION_RAW)
        => result = Ok(orig)

\* C3 witness: the Cid {version 'A', size 10, hash [1; 32]} of the test
\* cid_display parsed back from its string form.
StringRoundTripWitness ==
    /\ last = "from_str"
    /\ textSrc = "shown"
    /\ orig = CidNew(VERSION_RAW, U64(<<10>>), Repeat(1, HashLen))
    /\ Len(text) > 1
    /\ result = Ok(orig)

\* C4. Encoded length bound: the encoding of every Cid is at most
\* MAX_SIZE_IN_BYTES = 42 bytes long.
EncodedLengthBound ==
    wireSrc = "encoded" => Len(wire) <= MAX_SIZE_IN_BYTES

\* The index of the byte that ends the varint at the head of body (the first
\* byte without the continuation bit), 0 when there is none.
VarintEnd(body) ==
    IF \E i \in 1 .. Len(body) : body[i] < 128
    THEN CHOOSE i \in 1 .. Len(body) :
            body[i] < 128 /\ \A j \in 1 .. (i - 1) : body[j] >= 128
    ELSE 0

\* The buffer ends inside the varint.
TruncatedVarint(body) == VarintEnd(body) = 0 /\ Len(body) < U64Limbs

\* The varint ends within ten bytes and fits 64 bits.
ValidVarint(body) ==
    /\ VarintEnd(body) >= 1
    /\ VarintEnd(body) <= U64Limbs
    /\ VarintEnd(body) = U64Limbs => body[U64Limbs] <= 1

AlphabetChars == {Alphabet[i] : i \in 1 .. Len(Alphabet)}

ValidBase58(s) == \A i \in 1 .. Len(s) : s[i] \in AlphabetChars

\* The binary half of C5.
BinaryErrorClasses ==
    (last \in Decoders /\ wire # <<>>) =>
        LET body == Tail(wire)
            left == Len(body) - VarintEnd(body)
        IN /\ wire[1] # VERSION_RAW => result = UnsupportedVersion(wire[1])
           /\ (wire[1] = VERSION_RAW /\ TruncatedVarint(body))
                 => result = Err("InvalidSize")
           /\ (wire[1] = VERSION_RAW /\ ValidVarint(body) /\ left # HashLen)
                 => result = Err("InvalidHash")
           /\ (wire[1] = VERSION_RAW /\ ValidVarint(body) /\ left = HashLen)
                 => result.tag = "Ok"

\* C5. Decode error classification: a first byte other than 0x41 gives
\* UnsupportedVersion; 0x41 and a truncated varint give InvalidSize; 0x41 and
\* a valid varint give InvalidHash unless exactly 32 bytes remain, and a Cid
\* when they do; from_str gives InvalidEncoding whenever the text after the
\* first character is not valid base-58.
DecodeErrorClasses ==
    /\ BinaryErrorClasses
    /\ (last = "from_str" /\ text # <<>> /\ ~ValidBase58(Tail(text)))
          => result = Err("InvalidEncoding")

\* C5, on the strings whose first character is one byte long, where from_str
\* gets past split_at(1).
DecodeErrorClassesOneByteFirst ==
    /\ BinaryErrorClasses
    /\ (last = "from_str" /\ text # <<>> /\ Utf8Len(text[1]) = 1
            /\ ~ValidBase58(Tail(text)))
          => result = Err("InvalidEncoding")

\* C6. Decoding is all-or-nothing with typed failures: every decoder call
\* returns a whole Cid or one of the four CidDecodeError values; none panics.
DecodeNeverPanics ==
    last \in Decoders \cup {"from_str"} =>
        \/ /\ result.tag = "Ok"
           /\ Len(result.cid.hash) = HashLen
        \/ /\ result.tag = "Err"
           /\ result.err \in {"UnsupportedVersion", "InvalidSize",
                              "InvalidEncoding", "InvalidHash"}

====
